---------------------------- MODULE Spec2Model ----------------------------
(***************************************************************************)
(* A model of three QEMU TCG plugins of contrib/plugins:                   *)
(*   stoptrigger.c  stop the emulation on an instruction count or address  *)
(*   sca_hw.c       Hamming-weight leakage of the registers written        *)
(*   skipinsn.c     skip the icount-th executed instruction                *)
(* Each plugin is a set of callbacks the host runtime invokes; an action   *)
(* of the model is one invocation of one callback (or, where threads of    *)
(* different vCPUs race on shared memory, one step of it).                 *)
(***************************************************************************)
EXTENDS Integers, Sequences, FiniteSets, TLC

(***************************************************************************)
(* Bounds of the model.                                                    *)
(***************************************************************************)
\* number of command-line arguments handed to stoptrigger's install
MaxArgs == 2
\* instructions retired per vCPU in a run of stoptrigger
MaxInsns == 3
\* instructions per translation block
MaxTbLen == 2
\* vCPUs of the machine stoptrigger is loaded into
NumVcpus == 2
\* vCPUs (threads) of the machine sca_hw is loaded into, when all execute
NumScaVcpus == 2
\* vCPUs (threads) of the machine sca_hw is loaded into, when one executes
NumTableVcpus == 4
\* calls of sca_hw's vcpu_insn_exec per vCPU
MaxCallbacks == 2
\* vCPUs (threads) of the machine skipinsn is loaded into
NumSkipVcpus == 2
\* calls of skipinsn's vcpu_insn_exec per vCPU
MaxSkipCallbacks == 2
\* the greatest icount skipinsn is loaded with
MaxSkipIcount == 2
\* calls of skipinsn's vcpu_tb_trans per vCPU
MaxSkipTrans == 2

(***************************************************************************)
(* uint64_t.  TLC's integers are 32 bits wide, so a 64-bit value is kept    *)
(* as four 16-bit limbs, least significant first; all arithmetic is modulo *)
(* 2^64 as in C.                                                           *)
(***************************************************************************)
LimbBase == 256 * 256

U64Zero == <<0, 0, 0, 0>>

U64Max == <<LimbBase - 1, LimbBase - 1, LimbBase - 1, LimbBase - 1>>

\* the uint64_t of a natural number below 2^31
U64(n) == <<n % LimbBase, n \div LimbBase, 0, 0>>

\* x + k modulo 2^64, for 0 <= k < 2^15
U64Add(x, k) ==
    LET s1 == x[1] + k
        s2 == x[2] + (s1 \div LimbBase)
        s3 == x[3] + (s2 \div LimbBase)
        s4 == x[4] + (s3 \div LimbBase)
    IN  <<s1 % LimbBase, s2 % LimbBase, s3 % LimbBase, s4 % LimbBase>>

\* -x modulo 2^64 (unary minus on an unsigned 64-bit value)
U64Neg(x) ==
    U64Add(<<LimbBase - 1 - x[1], LimbBase - 1 - x[2],
             LimbBase - 1 - x[3], LimbBase - 1 - x[4]>>, 1)

\* x < y, x >= y on uint64_t
U64Lt(x, y) ==
    \/ x[4] < y[4]
    \/ x[4] = y[4] /\ x[3] < y[3]
    \/ x[4] = y[4] /\ x[3] = y[3] /\ x[2] < y[2]
    \/ x[4] = y[4] /\ x[3] = y[3] /\ x[2] = y[2] /\ x[1] < y[1]

U64Ge(x, y) == ~U64Lt(x, y)

\* x * m + d without reduction: the 64-bit result and whether it overflowed
U64MulAdd(x, m, d) ==
    LET p1 == x[1] * m + d
        p2 == x[2] * m + (p1 \div LimbBase)
        p3 == x[3] * m + (p2 \div LimbBase)
        p4 == x[4] * m + (p3 \div LimbBase)
    IN  [val |-> <<p1 % LimbBase, p2 % LimbBase, p3 % LimbBase, p4 % LimbBase>>,
         ovf |-> (p4 \div LimbBase) > 0]

\* (int) x: the low 32 bits of x read as a signed int
IntOfU64(x) ==
    IF x[2] >= LimbBase \div 2
    THEN (x[2] - LimbBase) * LimbBase + x[1]
    ELSE x[2] * LimbBase + x[1]

\* (guint) (gulong) p: the low 32 bits of a 64-bit pointer, widened again
GPOINTER_TO_UINT(p) == <<p[1], p[2], 0, 0>>

\* (gpointer) (gulong) u of a uint64_t u on an LP64 host: all 64 bits
GUINT_TO_POINTER(u) == u

(***************************************************************************)
(* C strings are sequences of one-character strings.  A char* that may be  *)
(* NULL is a sequence of length at most one: <<>> is NULL, <<s>> points to *)
(* the string s.                                                           *)
(***************************************************************************)
NULL == <<>>

Ptr(s) == <<s>>

RECURSIVE IndexOf(_, _, _)
\* the least index >= i of character ch in s, or 0
IndexOf(s, ch, i) ==
    IF i > Len(s) THEN 0
    ELSE IF s[i] = ch THEN i
    ELSE IndexOf(s, ch, i + 1)

\* g_strsplit(string, delimiter, 2) for a one-character delimiter: the
\* NULL-terminated vector of at most two tokens, as the sequence of its
\* tokens.  The empty string splits into the empty vector.
g_strsplit(s, delim) ==
    LET i == IndexOf(s, delim, 1)
    IN  IF s = <<>> THEN <<>>
        ELSE IF i = 0 THEN <<s>>
        ELSE <<SubSeq(s, 1, i - 1), SubSeq(s, i + 1, Len(s))>>

\* tokens[i] of such a vector, 0-based as in C: the token, or the NULL that
\* terminates the vector (reading beyond the terminator is out of bounds)
Token(tokens, i) == IF i < Len(tokens) THEN Ptr(tokens[i + 1]) ELSE NULL

\* g_strrstr(haystack, "-") != NULL
HasMinus(s) == IndexOf(s, "-", 1) # 0

\* the value of a digit character in bases up to 16; 16 for any other one
DigitVal(ch) ==
    CASE ch = "0" -> 0 [] ch = "1" -> 1 [] ch = "2" -> 2 [] ch = "3" -> 3
      [] ch = "4" -> 4 [] ch = "5" -> 5 [] ch = "6" -> 6 [] ch = "7" -> 7
      [] ch = "8" -> 8 [] ch = "9" -> 9
      [] ch \in {"a", "A"} -> 10 [] ch \in {"b", "B"} -> 11
      [] ch \in {"c", "C"} -> 12 [] ch \in {"d", "D"} -> 13
      [] ch \in {"e", "E"} -> 14 [] ch \in {"f", "F"} -> 15
      [] OTHER -> 16

RECURSIVE SkipSpace(_)
SkipSpace(s) ==
    IF s # <<>> /\ Head(s) = " " THEN SkipSpace(Tail(s)) ELSE s

RECURSIVE Digits(_, _, _)
\* the digits of s in `base', accumulated onto acc, up to the first
\* character that is no digit of the base
Digits(s, base, acc) ==
    IF s = <<>> \/ DigitVal(Head(s)) >= base THEN acc
    ELSE LET r == U64MulAdd(acc.val, base, DigitVal(Head(s)))
         IN  Digits(Tail(s), base,
                    [val |-> r.val, ovf |-> acc.ovf \/ r.ovf])

\* g_ascii_strtoull(nptr, NULL, 0): leading white space, an optional sign, a
\* 0x prefix for base 16 or a 0 prefix for base 8, then the longest run of
\* digits; 0 when there is none, 2^64-1 on overflow, negated after a "-".
g_ascii_strtoull(s) ==
    LET s1  == SkipSpace(s)
        neg == s1 # <<>> /\ Head(s1) = "-"
        s2  == IF s1 # <<>> /\ Head(s1) \in {"-", "+"} THEN Tail(s1) ELSE s1
        hex == Len(s2) >= 2 /\ s2[1] = "0" /\ s2[2] \in {"x", "X"}
        base == IF hex THEN 16
                ELSE IF s2 # <<>> /\ s2[1] = "0" THEN 8 ELSE 10
        s3  == IF hex THEN SubSeq(s2, 3, Len(s2)) ELSE s2
        r   == Digits(s3, base, [val |-> U64Zero, ovf |-> FALSE])
    IN  IF r.ovf THEN U64Max
        ELSE IF neg THEN U64Neg(r.val) ELSE r.val


(***************************************************************************)
(* State.                                                                  *)
(***************************************************************************)
VARIABLES
    \* ---- stoptrigger.c ----
    argv,               \* the arguments of qemu_plugin_install
    phase,              \* "load", "run", "rejected", "crashed", "exited"
    install_ret,        \* <<>> until qemu_plugin_install returns, then <<r>>
    tb_trans_registered,\* vcpu_tb_trans is registered with the host
    icount,             \* static uint64_t icount
    icount_exit_code,   \* static int icount_exit_code
    exit_on_icount,     \* static bool exit_on_icount
    exit_on_address,    \* static bool exit_on_address
    addrs_ht,           \* GHashTable: trigger address -> exit code
    snapshot_name,      \* static char *snapshot_name (NULL or <<name>>)
    tb_exited,          \* bool tb_exited
    insn_count,         \* the scoreboard: vCPU -> uint64_t
    insn_cbs,           \* address -> callbacks registered on its instruction
    hostcalls,          \* calls made into the host, in order
    cblog,              \* invocations of the two trigger callbacks, in order
    retired,            \* vCPU -> instrumented instructions retired
    last_insn,          \* <<>> or <<[cpu, addr]>>: the instruction retired last
    reentry,            \* vCPU -> <<>> or <<addr>>: where it re-enters the code
    exit_status,        \* <<>> or <<code>>: the argument of exit()
    \* ---- sca_hw.c ----
    info,               \* qemu_info_t: system_emulation, max_vcpus
    reg_list,           \* qemu_plugin_get_registers(): the registers' widths
    guest,              \* vCPU -> the current bytes of each of its registers
    guest_writes,       \* whether the guest's instructions write registers
    cpus,               \* static GArray *cpus: len, elt_capacity, data
    heap,               \* block -> the CPU structs stored in it
    freed,              \* the blocks g_realloc has released
    expand_array_lock,  \* static GRWLock: NULL or <<t>>, the writer
    pc,                 \* thread of vCPU t -> where it is
    cptr,               \* thread of vCPU t -> its local CPU *c / CPU *cpu
    regs,               \* GPtrArray address -> its Register structs
    records,            \* the leakage records printed, in order
    ncallbacks,         \* vCPU -> calls of vcpu_insn_exec that returned
    last_diff,          \* <<>> or <<d>>: the last compute_hw_reg_leakage
    guest_len,          \* vCPU -> instructions its guest code executes
    found_len,          \* vCPU -> the cpus->len its vcpu_init found
    proc,               \* "running", "segv" or "abort"
    uaf,                \* a released block was read or written
    \* ---- skipinsn.c ----
    skip_icount,            \* icount of skipinsn.c
    executed_instructions,
    insn_ht,                \* key -> InsnInfo
    hashtable_lock,         \* NULL or <<t>>, the thread holding the mutex
    skip_pc,                \* vCPU -> where its thread is in the plugin
    skip_local,             \* vCPU -> the locals of the function it is in
    skip_cbs,               \* the callbacks registered, with their udata
    skip_ncalls,            \* calls of vcpu_insn_exec so far
    skip_log,               \* the calls of qemu_plugin_set_pc, in order
    skip_nalloc,            \* InsnInfo structs allocated so far
    skip_nincr,             \* executions of executed_instructions++
    skip_left               \* vCPU -> translations and callbacks to come

installVars == <<argv, phase, install_ret, tb_trans_registered, icount,
                 icount_exit_code, exit_on_icount, exit_on_address,
                 addrs_ht, snapshot_name>>

runVars == <<tb_exited, insn_count, insn_cbs, hostcalls, cblog, retired,
             last_insn, reentry, exit_status>>

stopVars == <<installVars, runVars>>

scaVars == <<info, reg_list, guest, guest_writes, cpus, heap, freed,
             expand_array_lock, pc, cptr, regs, records, ncallbacks,
             last_diff, guest_len, found_len, proc, uaf>>

skipVars == <<skip_icount, executed_instructions, insn_ht, hashtable_lock,
              skip_pc, skip_local, skip_cbs, skip_ncalls, skip_log,
              skip_nalloc, skip_nincr, skip_left>>

vars == <<stopVars, scaVars, skipVars>>

(***************************************************************************)
(* stoptrigger.c: qemu_plugin_install                                      *)
(***************************************************************************)
S_icount == <<"i", "c", "o", "u", "n", "t">>

S_addr == <<"a", "d", "d", "r">>

S_savevm == <<"s", "a", "v", "e", "v", "m">>

\* g_hash_table_insert: the value of an existing key is replaced
g_hash_table_insert(ht, key, value) ==
    [k \in DOMAIN ht \cup {key} |-> IF k = key THEN value ELSE ht[k]]

\* g_hash_table_lookup cast by GPOINTER_TO_INT: NULL, that is 0, for a key
\* that is not in the table
g_hash_table_lookup(ht, key) == IF key \in DOMAIN ht THEN ht[key] ELSE 0

g_hash_table_contains(ht, key) == key \in DOMAIN ht

\* The file-scope variables as qemu_plugin_install finds them, and `st', how
\* far the function got: "loop" (in the argument loop), "fail" (returned
\* -1), "crash" (the process died in the function).
InstallStart ==
    [icount |-> U64Zero, icount_exit_code |-> 0, exit_on_icount |-> FALSE,
     exit_on_address |-> FALSE, addrs_ht |-> <<>>, snapshot_name |-> NULL,
     st |-> "loop"]

\* What the two undefined reads of the argument loop may produce.
\* g_ascii_strtoull(NULL) (the value of "icount=" or "addr=" splits into the
\* empty vector, whose element 0 is NULL) either faults or returns 0; and
\* addr_tokens[1] of that empty vector is read beyond its terminator, where
\* there is NULL or a pointer to some other bytes.
UBOutcomes ==
    [null_faults : BOOLEAN, oob : {NULL, Ptr(<<"9">>), Ptr(<<"z">>)}]

\* InstallIcount without the search for a "-" in the limit
InstallIcountNoMinusCheck(g, val, ub) ==
    IF val = NULL THEN [g EXCEPT !.st = "crash"]
    ELSE
    LET icount_tokens == g_strsplit(val[1], ":")
        t0 == Token(icount_tokens, 0)
        t1 == Token(icount_tokens, 1)
    IN  IF t0 = NULL /\ ub.null_faults THEN [g EXCEPT !.st = "crash"]
        ELSE
        LET n == IF t0 = NULL THEN U64Zero ELSE g_ascii_strtoull(t0[1])
        IN  IF U64Lt(n, U64(1))
            THEN [g EXCEPT !.icount = n, !.st = "fail"]
            ELSE [g EXCEPT !.icount = n,
                           !.icount_exit_code =
                               IF t1 # NULL
                               THEN IntOfU64(g_ascii_strtoull(t1[1]))
                               ELSE @,
                           !.exit_on_icount = TRUE]

\* the branch for "icount=..." (lines 143-155)
InstallIcount(g, val, ub) ==
    IF val = NULL THEN [g EXCEPT !.st = "crash"]   \* g_strsplit(NULL)[0]
    ELSE
    LET icount_tokens == g_strsplit(val[1], ":")
        t0 == Token(icount_tokens, 0)
        t1 == Token(icount_tokens, 1)
    IN  IF t0 = NULL /\ ub.null_faults THEN [g EXCEPT !.st = "crash"]
        ELSE
        LET n == IF t0 = NULL THEN U64Zero ELSE g_ascii_strtoull(t0[1])
        IN  IF U64Lt(n, U64(1)) \/ (t0 # NULL /\ HasMinus(t0[1]))
            THEN [g EXCEPT !.icount = n, !.st = "fail"]
            ELSE [g EXCEPT !.icount = n,
                           !.icount_exit_code =
                               IF t1 # NULL
                               THEN IntOfU64(g_ascii_strtoull(t1[1]))
                               ELSE @,
                           !.exit_on_icount = TRUE]

\* the branch for "addr=..." (lines 157-165)
InstallAddr(g, val, ub) ==
    IF val = NULL THEN [g EXCEPT !.st = "crash"]   \* g_strsplit(NULL)[0]
    ELSE
    LET addr_tokens == g_strsplit(val[1], ":")
        t0 == Token(addr_tokens, 0)
        t1 == IF addr_tokens = <<>> THEN ub.oob ELSE Token(addr_tokens, 1)
    IN  IF t0 = NULL /\ ub.null_faults THEN [g EXCEPT !.st = "crash"]
        ELSE
        LET exit_addr == IF t0 = NULL THEN U64Zero
                         ELSE g_ascii_strtoull(t0[1])
            exit_code == IF t1 # NULL
                         THEN IntOfU64(g_ascii_strtoull(t1[1])) ELSE 0
        IN  [g EXCEPT !.addrs_ht =
                          g_hash_table_insert(@, GUINT_TO_POINTER(exit_addr),
                                              exit_code),
                      !.exit_on_address = TRUE]

\* one iteration of the argument loop (lines 140-171)
InstallArg(g, opt, ub) ==
    LET tokens == g_strsplit(opt, "=")
        key == Token(tokens, 0)
        val == Token(tokens, 1)
    IN  IF key = Ptr(S_icount) THEN InstallIcount(g, val, ub)
        ELSE IF key = Ptr(S_addr) THEN InstallAddr(g, val, ub)
        ELSE IF key = Ptr(S_savevm) THEN [g EXCEPT !.snapshot_name = val]
        ELSE [g EXCEPT !.st = "fail"]

RECURSIVE InstallLoop(_, _, _, _)
\* the argument loop from argument i on (lines 139-172)
InstallLoop(g, args, i, ub) ==
    IF i > Len(args) \/ g.st # "loop" THEN g
    ELSE InstallLoop(InstallArg(g, args[i], ub), args, i + 1, ub)

\* the check that follows the loop (lines 174-177)
InstallCheck(g) ==
    IF g.st = "loop" /\ ~g.exit_on_icount /\ ~g.exit_on_address
    THEN [g EXCEPT !.st = "fail"]
    ELSE g

\* Whether the function goes on to register vcpu_tb_trans (lines 179-183).
InstallRegisters(g) == g.st = "loop"

qemu_plugin_install ==
    /\ phase = "load"
    /\ \E ub \in UBOutcomes :
         LET g == InstallCheck(InstallLoop(InstallStart, argv, 1, ub))
         IN  /\ icount' = g.icount
             /\ icount_exit_code' = g.icount_exit_code
             /\ exit_on_icount' = g.exit_on_icount
             /\ exit_on_address' = g.exit_on_address
             /\ addrs_ht' = g.addrs_ht
             /\ snapshot_name' = g.snapshot_name
             /\ tb_trans_registered' = InstallRegisters(g)
             /\ phase' = CASE g.st = "crash" -> "crashed"
                           [] g.st = "fail" -> "rejected"
                           [] OTHER -> "run"
             /\ install_ret' = CASE g.st = "crash" -> <<>>
                                 [] g.st = "fail" -> <<-1>>
                                 [] OTHER -> <<0>>
    /\ UNCHANGED <<argv, runVars, scaVars, skipVars>>

(***************************************************************************)
(* The arguments the model hands to qemu_plugin_install.                   *)
(***************************************************************************)
Opt(key, val) == key \o <<"=">> \o val

IcountValues ==
    { <<"5">>, <<"5", ":", "7">>, <<"0">>, <<"0", "x", "0">>, <<"-", "1">>,
      <<"5", "x">>, <<"x">>, <<"2", ":", "z">>, <<>> }

AddrValues ==
    { <<"0", "x", "1", "0", "0", "0", ":", "2">>, <<"4", "0", "9", "6">>,
      <<"z", "z">>, <<"8", ":", "q">>, <<"-", "1">>, <<>> }

InstallOpts ==
    {Opt(S_icount, v) : v \in IcountValues}
    \cup {Opt(S_addr, v) : v \in AddrValues}
    \cup {Opt(S_savevm, <<"s", "1">>), Opt(<<"f", "o", "o">>, <<"1">>),
          S_icount, S_addr, S_savevm}

RECURSIVE SeqsUpTo(_, _)
\* the sequences over S of length at most n
SeqsUpTo(S, n) ==
    IF n = 0 THEN {<<>>}
    ELSE LET shorter == SeqsUpTo(S, n - 1)
         IN  shorter \cup {Append(q, x) : q \in shorter, x \in S}

Vcpus == 0 .. NumVcpus - 1

\* tb_exited is zero-initialised; qemu_plugin_scoreboard_new hands out a
\* zeroed entry per vCPU; nothing is translated or executed yet
RunInit ==
    /\ tb_exited = FALSE
    /\ insn_count = [c \in Vcpus |-> U64Zero]
    /\ insn_cbs = <<>>
    /\ hostcalls = <<>>
    /\ cblog = <<>>
    /\ retired = [c \in Vcpus |-> 0]
    /\ last_insn = <<>>
    /\ reentry = [c \in Vcpus |-> NULL]
    /\ exit_status = <<>>

LoadInit ==
    /\ phase = "load"
    /\ install_ret = <<>>
    /\ tb_trans_registered = FALSE
    /\ icount = U64Zero
    /\ icount_exit_code = 0
    /\ exit_on_icount = FALSE
    /\ exit_on_address = FALSE
    /\ addrs_ht = <<>>
    /\ snapshot_name = NULL

\* sca_hw.so is not loaded
\* skipinsn.so is not loaded
SkipIdle ==
    /\ skip_icount = U64Zero
    /\ executed_instructions = U64Zero
    /\ insn_ht = <<>>
    /\ hashtable_lock = NULL
    /\ skip_pc = <<>>
    /\ skip_local = <<>>
    /\ skip_cbs = {}
    /\ skip_ncalls = 0
    /\ skip_log = <<>>
    /\ skip_nalloc = 0
    /\ skip_nincr = 0
    /\ skip_left = <<>>

ScaIdle ==
    /\ info = [system_emulation |-> FALSE, max_vcpus |-> 0]
    /\ reg_list = <<>>
    /\ guest = <<>>
    /\ guest_writes = FALSE
    /\ cpus = [len |-> 0, elt_capacity |-> 0, data |-> 0]
    /\ heap = <<>>
    /\ freed = {}
    /\ expand_array_lock = NULL
    /\ pc = <<>>
    /\ cptr = <<>>
    /\ regs = <<>>
    /\ records = <<>>
    /\ ncallbacks = <<>>
    /\ last_diff = <<>>
    /\ guest_len = <<>>
    /\ found_len = <<>>
    /\ proc = "running"
    /\ uaf = FALSE

InitInstall ==
    /\ argv \in SeqsUpTo(InstallOpts, MaxArgs)
    /\ LoadInit
    /\ RunInit
    /\ ScaIdle
    /\ SkipIdle

SpecInstall == InitInstall /\ [][qemu_plugin_install]_vars


(***************************************************************************)
(* stoptrigger.c at run time.                                              *)
(***************************************************************************)
\* a call into the host: qemu_plugin_outs, qemu_plugin_exit_current_tb,
\* qemu_plugin_savevm or exit; `addr' is the address an outs message prints
HostCall(call, code, name, addr) ==
    [call |-> call, code |-> code, name |-> name, addr |-> addr]

\* The state the callbacks of one instruction run in: tb_exited, the calls
\* made and the invocations logged so far, and how the instruction ended:
\* "run", "tb_exit" (exit of the translation block requested) or "exited".
\* exit_emulation (lines 42-47)
exit_emulation(s, return_code, message) ==
    [s EXCEPT !.hostcalls = @ \o <<message, HostCall("exit", return_code,
                                                     NULL, U64Zero)>>,
              !.st = "exited",
              !.exit_status = <<return_code>>]

\* the shared part with a second phase that persists the snapshot and
\* returns instead of falling through to the exit
TwoPhaseReturns(s, msg) ==
    IF snapshot_name # NULL
    THEN IF ~s.tb_exited
         THEN [s EXCEPT !.tb_exited = TRUE,
                        !.hostcalls = @ \o <<msg,
                            HostCall("exit_current_tb", 0, NULL, U64Zero)>>,
                        !.st = "tb_exit",
                        !.returned = TRUE]
         ELSE [s EXCEPT !.hostcalls = @ \o
                            <<HostCall("savevm", 0, snapshot_name, U64Zero)>>,
                        !.msg = HostCall("outs", 0, snapshot_name, U64Zero),
                        !.returned = TRUE]
    ELSE s

\* the part the two trigger callbacks share (lines 55-66 and 77-88): the
\* state after it, `returned' when the callback has returned in it
TwoPhase(s, msg) ==
    IF snapshot_name # NULL
    THEN IF ~s.tb_exited
         THEN [s EXCEPT !.tb_exited = TRUE,
                        !.hostcalls = @ \o <<msg,
                            HostCall("exit_current_tb", 0, NULL, U64Zero)>>,
                        !.st = "tb_exit",
                        !.returned = TRUE]
         ELSE [s EXCEPT !.hostcalls = @ \o
                            <<HostCall("savevm", 0, snapshot_name, U64Zero)>>,
                        !.msg = HostCall("outs", 0, snapshot_name, U64Zero)]
    ELSE s

\* exit_icount_reached (lines 49-69)
exit_icount_reached(s0, cpu_index, udata) ==
    LET insn_vaddr == GPOINTER_TO_UINT(udata)
        msg == HostCall("outs", 0, NULL, insn_vaddr)
        s1 == [s0 EXCEPT !.cblog = Append(@,
                   [fn |-> "exit_icount_reached", cpu |-> cpu_index,
                    udata |-> udata, insn_vaddr |-> insn_vaddr,
                    n |-> retired[cpu_index] + 1]),
                         !.msg = msg,
                         !.returned = FALSE]
        s2 == TwoPhase(s1, msg)
    IN  IF s2.returned THEN s2
        ELSE exit_emulation(s2, icount_exit_code, s2.msg)

\* exit_address_reached (lines 71-94)
exit_address_reached(s0, cpu_index, udata) ==
    LET insn_vaddr == GPOINTER_TO_UINT(udata)
        msg == HostCall("outs", 0, NULL, insn_vaddr)
        s1 == [s0 EXCEPT !.cblog = Append(@,
                   [fn |-> "exit_address_reached", cpu |-> cpu_index,
                    udata |-> udata, insn_vaddr |-> insn_vaddr,
                    n |-> retired[cpu_index] + 1]),
                         !.msg = msg,
                         !.returned = FALSE]
        s2 == TwoPhase(s1, msg)
        exit_code == g_hash_table_lookup(addrs_ht,
                                         GUINT_TO_POINTER(insn_vaddr))
    IN  IF s2.returned THEN s2
        ELSE exit_emulation(s2, exit_code, s2.msg)

\* what vcpu_tb_trans registers on the instruction at insn_vaddr, in order
\* (lines 101-119)
Instrument(insn_vaddr) ==
    (IF exit_on_icount
     THEN << [op |-> "inline_add_u64", imm |-> U64(1), udata |-> U64Zero],
             [op |-> "cond_ge_cb", imm |-> U64Add(icount, 1),
              udata |-> GUINT_TO_POINTER(insn_vaddr)] >>
     ELSE <<>>)
    \o
    (IF exit_on_address
        /\ g_hash_table_contains(addrs_ht, GUINT_TO_POINTER(insn_vaddr))
     THEN << [op |-> "cb", imm |-> U64Zero,
              udata |-> GUINT_TO_POINTER(insn_vaddr)] >>
     ELSE <<>>)

\* the addresses of the guest's instructions
GuestAddrs == {U64(4096), U64(4100), <<4096, 0, 1, 0>>}

Range(q) == {q[i] : i \in DOMAIN q}

\* vcpu_tb_trans (lines 96-121), for the translation block tb, a sequence of
\* instruction addresses
vcpu_tb_trans ==
    /\ phase = "run"
    /\ tb_trans_registered
    /\ \E tb \in SeqsUpTo(GuestAddrs, MaxTbLen) \ {<<>>} :
         insn_cbs' = [a \in DOMAIN insn_cbs \cup Range(tb) |->
                         IF a \in Range(tb) THEN Instrument(a)
                         ELSE insn_cbs[a]]
    /\ UNCHANGED <<installVars, tb_exited, insn_count, hostcalls, cblog,
                   retired, last_insn, reentry, exit_status, scaVars,
                   skipVars>>

RECURSIVE RunCallbacks(_, _, _, _, _)
\* The host runs the callbacks cbs[i..] of one instruction on vCPU c, in the
\* order of their registration.  Nothing runs after exit().  What
\* qemu_plugin_exit_current_tb does to the rest of the instruction is the
\* host's: with `unwinds' it leaves the block at once and the later
\* callbacks of the instruction do not run, without it they still do.
RunCallbacks(s, cbs, i, c, unwinds) ==
    IF i > Len(cbs) \/ s.st = "exited" \/ (s.st = "tb_exit" /\ unwinds)
    THEN s
    ELSE LET cb == cbs[i]
             t == CASE cb.op = "inline_add_u64" ->
                        [s EXCEPT !.count = U64Add(@, 1)]
                    [] cb.op = "cond_ge_cb" ->
                        IF U64Ge(s.count, cb.imm)
                        THEN exit_icount_reached(s, c, cb.udata)
                        ELSE s
                    [] OTHER -> exit_address_reached(s, c, cb.udata)
         IN  RunCallbacks(t, cbs, i + 1, c, unwinds)

\* After qemu_plugin_exit_current_tb the vCPU re-enters the instrumented
\* code at the instruction whose callback asked for the exit, so that the
\* same trigger is evaluated again: vCPU c may execute the instruction at a
\* next.
Reenters(c, a) == reentry[c] = NULL \/ reentry[c] = <<a>>

\* where vCPU c re-enters after the callbacks of the instruction at a ended
\* as st
ReentryAfter(st, a) == IF st = "tb_exit" THEN <<a>> ELSE NULL

\* One instrumented instruction, at address a, is executed on vCPU c: a new
\* one, or the one the vCPU re-enters at.
insn_exec ==
    /\ phase = "run"
    /\ \E c \in Vcpus, a \in DOMAIN insn_cbs, unwinds \in BOOLEAN :
         /\ retired[c] < MaxInsns \/ reentry[c] # NULL
         /\ Reenters(c, a)
         /\ LET s == RunCallbacks(
                        [count |-> insn_count[c], tb_exited |-> tb_exited,
                         hostcalls |-> hostcalls, cblog |-> cblog,
                         st |-> "run", exit_status |-> exit_status,
                         msg |-> HostCall("outs", 0, NULL, U64Zero),
                         returned |-> FALSE],
                        insn_cbs[a], 1, c, unwinds)
            IN  /\ insn_count' = [insn_count EXCEPT ![c] = s.count]
                /\ tb_exited' = s.tb_exited
                /\ hostcalls' = s.hostcalls
                /\ cblog' = s.cblog
                /\ exit_status' = s.exit_status
                /\ phase' = IF s.st = "exited" THEN "exited" ELSE phase
                /\ reentry' = [reentry EXCEPT ![c] = ReentryAfter(s.st, a)]
         /\ retired' = [retired EXCEPT ![c] = @ + 1]
         /\ last_insn' = <<[cpu |-> c, addr |-> a]>>
    /\ UNCHANGED <<argv, install_ret, tb_trans_registered, icount,
                   icount_exit_code, exit_on_icount, exit_on_address,
                   addrs_ht, snapshot_name, insn_cbs, scaVars,
                   skipVars>>

\* the configurations the runs of the model start from
V_1000 == <<"0", "x", "1", "0", "0", "0">>

V_1004 == <<"0", "x", "1", "0", "0", "4">>

V_100001000 == <<"0", "x", "1", "0", "0", "0", "0", "1", "0", "0", "0">>

V_max == <<"0", "x", "f", "f", "f", "f", "f", "f", "f", "f",
           "f", "f", "f", "f", "f", "f", "f", "f">>

O_savevm == Opt(S_savevm, <<"s", "1">>)

RunArgvs ==
    { << Opt(S_icount, <<"1">>) >>,
      << Opt(S_icount, <<"2", ":", "7">>) >>,
      << Opt(S_icount, V_max \o <<":", "7">>) >>,
      << Opt(S_addr, V_1000 \o <<":", "2">>) >>,
      << Opt(S_addr, V_1004) >>,
      << Opt(S_addr, V_1000 \o <<":", "2">>),
         Opt(S_addr, V_100001000 \o <<":", "3">>) >>,
      << Opt(S_addr, V_100001000 \o <<":", "3">>) >>,
      << Opt(S_icount, <<"2", ":", "7">>), O_savevm >>,
      << Opt(S_addr, V_1000 \o <<":", "2">>), O_savevm >>,
      << Opt(S_addr, V_100001000 \o <<":", "3">>), O_savevm >>,
      << Opt(S_icount, <<"2", ":", "7">>),
         Opt(S_addr, V_1004 \o <<":", "2">>) >>,
      << Opt(S_icount, <<"1", ":", "7">>),
         Opt(S_addr, V_1004 \o <<":", "2">>), O_savevm >> }

InitStop ==
    /\ argv \in RunArgvs
    /\ LoadInit
    /\ RunInit
    /\ ScaIdle
    /\ SkipIdle

NextStop == qemu_plugin_install \/ vcpu_tb_trans \/ insn_exec

SpecStop == InitStop /\ [][NextStop]_vars

\* the configurations with savevm
SaveArgvs == {a \in RunArgvs : O_savevm \in Range(a)}

InitStopSave ==
    /\ argv \in SaveArgvs
    /\ LoadInit
    /\ RunInit
    /\ ScaIdle
    /\ SkipIdle

\* the runs with savevm in which the guest keeps executing instructions
\* while a vCPU has one to execute
SpecStopRuns ==
    /\ InitStopSave
    /\ [][NextStop]_vars
    /\ WF_vars(insn_exec)


(***************************************************************************)
(* Claims about stoptrigger.c at run time.                                 *)
(***************************************************************************)
Started == phase \in {"run", "exited"}

Calls(name) == {i \in DOMAIN hostcalls : hostcalls[i].call = name}

\* the exit code the configuration gives the trigger of a logged invocation
ConfiguredCode(e) ==
    IF e.fn = "exit_icount_reached" THEN icount_exit_code
    ELSE addrs_ht[e.udata]

\* C1: with icount=L:E alone (no savevm, no addr), on every vCPU the count
\* callback is not invoked for any of the first L instructions the vCPU
\* retires, is invoked for the (L+1)-th, which ends the process with exit
\* code E, and the vCPU's counter equals the number of instructions the
\* vCPU itself retired.
C1_CountTrigger ==
    (Started /\ exit_on_icount /\ ~exit_on_address /\ snapshot_name = NULL)
    =>
    /\ \A i \in DOMAIN cblog : U64Lt(icount, U64(cblog[i].n))
    /\ \A c \in Vcpus :
         /\ insn_count[c] = U64(retired[c])
         /\ U64Lt(icount, U64(retired[c])) =>
              /\ phase = "exited"
              /\ exit_status = <<icount_exit_code>>
              /\ \E i \in DOMAIN cblog :
                    /\ cblog[i].cpu = c
                    /\ cblog[i].n >= 1
                    /\ U64(cblog[i].n - 1) = icount

\* C1 for the limits below 2^64 - 1
C1_CountTriggerBelowMax == icount # U64Max => C1_CountTrigger

\* C2: with savevm=<name>, while the trigger callbacks are invoked on one
\* vCPU only: the first invocation prints, requests the exit of the
\* translation block and neither saves nor exits; the second saves the
\* snapshot <name> once and exits with the exit code configured for its
\* trigger.  And in every run no snapshot is saved before an exit of the
\* translation block was requested, and no trigger exits before the
\* snapshot was saved.
C2_TwoPhase ==
    (Started /\ snapshot_name # NULL)
    =>
    /\ \A i \in Calls("savevm") : \E j \in Calls("exit_current_tb") : j < i
    /\ \A i \in Calls("exit") : \E j \in Calls("savevm") : j < i
    /\ (\A i, j \in DOMAIN cblog : cblog[i].cpu = cblog[j].cpu) =>
         /\ Len(cblog) = 0 => hostcalls = <<>> /\ phase = "run"
         /\ Len(cblog) = 1 =>
              /\ hostcalls =
                   << HostCall("outs", 0, NULL, cblog[1].insn_vaddr),
                      HostCall("exit_current_tb", 0, NULL, U64Zero) >>
              /\ phase = "run"
         /\ Len(cblog) >= 2 =>
              /\ Len(cblog) = 2
              /\ hostcalls =
                   << HostCall("outs", 0, NULL, cblog[1].insn_vaddr),
                      HostCall("exit_current_tb", 0, NULL, U64Zero),
                      HostCall("savevm", 0, snapshot_name, U64Zero),
                      HostCall("outs", 0, snapshot_name, U64Zero),
                      HostCall("exit", ConfiguredCode(cblog[2]), NULL,
                               U64Zero) >>
              /\ phase = "exited"
              /\ exit_status = <<ConfiguredCode(cblog[2])>>

\* C2 but for the exit code, which is any
C2_TwoPhaseOrder ==
    (Started /\ snapshot_name # NULL)
    =>
    /\ \A i \in Calls("savevm") : \E j \in Calls("exit_current_tb") : j < i
    /\ \A i \in Calls("exit") : \E j \in Calls("savevm") : j < i
    /\ Cardinality(Calls("savevm")) <= 1
    /\ Len(cblog) = 1 => Calls("savevm") = {} /\ phase = "run"
    /\ Len(cblog) >= 2 =>
         /\ Len(cblog) = 2
         /\ Calls("savevm") = {3}
         /\ hostcalls[3].name = snapshot_name
         /\ phase = "exited"

\* C3: with addr entries and neither savevm nor icount: an instruction at a
\* configured address a, once retired, has ended the process with the exit
\* code of a's entry, no exit of the translation block was requested and no
\* snapshot saved; and the address callback is never invoked for an
\* instruction whose address is not configured.
C3_AddressTrigger ==
    (Started /\ snapshot_name = NULL /\ exit_on_address /\ ~exit_on_icount)
    =>
    /\ \A i \in DOMAIN cblog : cblog[i].udata \in DOMAIN addrs_ht
    /\ Calls("exit_current_tb") = {} /\ Calls("savevm") = {}
    /\ (last_insn # <<>> /\ last_insn[1].addr \in DOMAIN addrs_ht) =>
         /\ phase = "exited"
         /\ exit_status = <<addrs_ht[last_insn[1].addr]>>
    /\ (last_insn # <<>> /\ last_insn[1].addr \notin DOMAIN addrs_ht) =>
         /\ phase = "run"
         /\ cblog = <<>>

\* C3 for the trigger addresses below 2^32
C3_AddressTriggerLow ==
    (\A a \in DOMAIN addrs_ht : GPOINTER_TO_UINT(a) = a) => C3_AddressTrigger


(***************************************************************************)
(* Claims about stoptrigger.c's qemu_plugin_install.  What an argument     *)
(* says is read off its characters here, not taken from the parser above.  *)
(***************************************************************************)
Least(S) == CHOOSE i \in S : \A j \in S : i <= j

Places(str, ch) == {i \in DOMAIN str : str[i] = ch}

\* the text before the first ch of str (all of str when it has none)
Before(str, ch) ==
    IF Places(str, ch) = {} THEN str
    ELSE SubSeq(str, 1, Least(Places(str, ch)) - 1)

\* the text after the first ch of str, which has one
After(str, ch) == SubSeq(str, Least(Places(str, ch)) + 1, Len(str))

KeyOf(opt) == Before(opt, "=")

HasValue(opt) == Places(opt, "=") # {}

\* the limit or address of the value of an icount or addr argument
NumberOf(opt) == Before(After(opt, "="), ":")

HasCode(opt) == HasValue(opt) /\ Places(After(opt, "="), ":") # {}

CodeOf(opt) == After(After(opt, "="), ":")

DecDigits == {"0", "1", "2", "3", "4", "5", "6", "7", "8", "9"}

OctDigits == {"0", "1", "2", "3", "4", "5", "6", "7"}

HexDigits == DecDigits \cup {"a", "b", "c", "d", "e", "f",
                             "A", "B", "C", "D", "E", "F"}

Unsigned(str) ==
    IF str # <<>> /\ str[1] \in {"+", "-"} THEN Tail(str) ELSE str

\* str is, from its first character to its last, a number: an optional
\* sign and a decimal, 0x-hexadecimal or 0-octal numeral
ValidNumber(str) ==
    LET b == Unsigned(str)
    IN  \/ /\ Len(b) >= 3
           /\ b[1] = "0" /\ b[2] \in {"x", "X"}
           /\ \A i \in 3 .. Len(b) : b[i] \in HexDigits
        \/ /\ b # <<>>
           /\ b[1] # "0"
           /\ \A i \in DOMAIN b : b[i] \in DecDigits
        \/ /\ b # <<>>
           /\ b[1] = "0"
           /\ \A i \in DOMAIN b : b[i] \in OctDigits

\* a valid number that is negative or zero
ZeroOrNegative(str) ==
    /\ ValidNumber(str)
    /\ \/ str[1] = "-"
       \/ \A i \in DOMAIN Unsigned(str) : Unsigned(str)[i] \in {"0", "x", "X"}

NoTriggerKey == \A i \in DOMAIN argv : KeyOf(argv[i]) \notin {S_icount, S_addr}

BadIcount ==
    \E i \in DOMAIN argv :
        /\ KeyOf(argv[i]) = S_icount
        /\ HasValue(argv[i])
        /\ ZeroOrNegative(NumberOf(argv[i]))

\* The installation failed: qemu_plugin_install returned -1, or the process
\* died inside it (a wait status that is not zero either); vcpu_tb_trans
\* was not registered.
InstallFailed ==
    /\ phase \in {"rejected", "crashed"}
    /\ phase = "rejected" => install_ret = <<-1>>
    /\ ~tb_trans_registered

\* C7: once qemu_plugin_install has run on arguments with neither an icount
\* nor an addr key, or with an icount whose value is zero or negative, it
\* has failed with a status that is not zero and vcpu_tb_trans is not
\* registered.
C7_InstallRejects ==
    (phase # "load" /\ (NoTriggerKey \/ BadIcount)) => InstallFailed

\* C7's cases: no trigger key at all; icount=-1 after a good addr
C7_Witness ==
    /\ phase = "rejected"
    /\ install_ret = <<-1>>
    /\ \/ argv = <<Opt(S_savevm, <<"s", "1">>)>>
       \/ argv = <<Opt(S_addr, <<"4", "0", "9", "6">>),
                   Opt(S_icount, <<"-", "1">>)>>

UnknownKey ==
    \E i \in DOMAIN argv : KeyOf(argv[i]) \notin {S_icount, S_addr, S_savevm}

MalformedNumber ==
    \E i \in DOMAIN argv :
        /\ KeyOf(argv[i]) \in {S_icount, S_addr}
        /\ \/ ~HasValue(argv[i])
           \/ ~ValidNumber(NumberOf(argv[i]))
           \/ HasCode(argv[i]) /\ ~ValidNumber(CodeOf(argv[i]))

\* C10: once qemu_plugin_install has run on arguments one of which has a key
\* other than icount, addr and savevm, or has an icount or addr value whose
\* limit, address or exit code is not entirely a valid number, it has
\* failed with a status that is not zero.
C10_InstallRejectsMalformed ==
    (phase # "load" /\ (UnknownKey \/ MalformedNumber)) => InstallFailed

\* C10 for the unknown keys alone
C10_UnknownKeyRejected == (phase # "load" /\ UnknownKey) => InstallFailed


(***************************************************************************)
(* sca_hw.c                                                                *)
(***************************************************************************)
HAMMING_WEIGHT ==
    << 0, 1, 1, 2, 1, 2, 2, 3, 1, 2, 2, 3, 2, 3, 3, 4, 1, 2, 2, 3, 2, 3, 3, 4,
       2, 3, 3, 4, 3, 4, 4, 5, 1, 2, 2, 3, 2, 3, 3, 4, 2, 3, 3, 4, 3, 4, 4, 5,
       2, 3, 3, 4, 3, 4, 4, 5, 3, 4, 4, 5, 4, 5, 5, 6, 1, 2, 2, 3, 2, 3, 3, 4,
       2, 3, 3, 4, 3, 4, 4, 5, 2, 3, 3, 4, 3, 4, 4, 5, 3, 4, 4, 5, 4, 5, 5, 6,
       2, 3, 3, 4, 3, 4, 4, 5, 3, 4, 4, 5, 4, 5, 5, 6, 3, 4, 4, 5, 4, 5, 5, 6,
       4, 5, 5, 6, 5, 6, 6, 7, 1, 2, 2, 3, 2, 3, 3, 4, 2, 3, 3, 4, 3, 4, 4, 5,
       2, 3, 3, 4, 3, 4, 4, 5, 3, 4, 4, 5, 4, 5, 5, 6, 2, 3, 3, 4, 3, 4, 4, 5,
       3, 4, 4, 5, 4, 5, 5, 6, 3, 4, 4, 5, 4, 5, 5, 6, 4, 5, 5, 6, 5, 6, 6, 7,
       2, 3, 3, 4, 3, 4, 4, 5, 3, 4, 4, 5, 4, 5, 5, 6, 3, 4, 4, 5, 4, 5, 5, 6,
       4, 5, 5, 6, 5, 6, 6, 7, 3, 4, 4, 5, 4, 5, 5, 6, 4, 5, 5, 6, 5, 6, 6, 7,
       4, 5, 5, 6, 5, 6, 6, 7, 5, 6, 6, 7, 6, 7, 7, 8 >>

\* HAMMING_WEIGHT[b] of the C array, which is indexed from 0
HammingWeight(b) == HAMMING_WEIGHT[b + 1]

\* ---- the GArray cpus and the blocks it lives in ----
RECURSIVE g_nearest_pow(_, _)
\* the least power of two that is at least num, from p up
g_nearest_pow(num, p) == IF p >= num THEN p ELSE g_nearest_pow(num, 2 * p)

\* the capacity, in elements, g_array_maybe_expand allocates for want_len
\* elements: sizeof(CPU) is 16, the least allocation, and a power of two
Capacity(want_len) == g_nearest_pow(want_len, 1)

\* an element as g_array_set_size clears it (the array is created with
\* clear_ = true)
ZeroCPU == [last_cpu_index |-> 0, registers |-> NULL]

\* g_array_sized_new(true, true, sizeof(CPU), reserved): an empty array in
\* block 1, with room for the reserved elements and the terminator
g_array_sized_new(reserved) ==
    [len |-> 0, elt_capacity |-> Capacity(reserved + 1), data |-> 1]

\* g_array_set_size(cpus, length): the array, the blocks and the released
\* blocks after it.  A smaller length drops the elements from it on.  When
\* a larger length and the terminator exceed the capacity the block is
\* g_realloc'ed, which either extends it in place or (`moved') copies it to
\* a new block and releases the old one.
g_array_set_size(length, moved) ==
    LET want_len == length + 1
        expand == want_len > cpus.elt_capacity
        content == IF length > cpus.len
                   THEN heap[cpus.data]
                        \o [i \in 1 .. (length - cpus.len) |-> ZeroCPU]
                   ELSE SubSeq(heap[cpus.data], 1, length)
    IN  IF expand /\ moved
        THEN [cpus |-> [len |-> length, elt_capacity |-> Capacity(want_len),
                        data |-> Len(heap) + 1],
              heap |-> Append(heap, content),
              freed |-> freed \cup {cpus.data}]
        ELSE [cpus |-> [len |-> length,
                        elt_capacity |-> IF expand THEN Capacity(want_len)
                                         ELSE cpus.elt_capacity,
                        data |-> cpus.data],
              heap |-> [heap EXCEPT ![cpus.data] = content],
              freed |-> freed]

\* vcpu_init, lines 161-163, with the size set whatever the length is
EnsureSizeAlways(vcpu_index, moved) == g_array_set_size(vcpu_index + 1, moved)

\* vcpu_init, lines 161-163: the table grows to hold vcpu_index
EnsureSize(vcpu_index, moved) ==
    IF vcpu_index >= cpus.len
    THEN g_array_set_size(vcpu_index + 1, moved)
    ELSE [cpus |-> cpus, heap |-> heap, freed |-> freed]

\* a CPU * local that holds no address (not yet assigned, or out of scope)
NoCPU == [blk |-> 0, idx |-> 0]

\* &g_array_index(cpus, CPU, vcpu_index): the block and the place in it
ElementPtr(vcpu_index) == [blk |-> cpus.data, idx |-> vcpu_index]

\* the struct a CPU * points to (in a released block: what the block held)
Deref(p) == heap[p.blk][p.idx + 1]

Dangling(p) == p.blk \in freed

\* a write of one field through a CPU *.  Through a dangling pointer it is
\* undefined: it faults, or lands in the released block, which nothing
\* reads after it (a pointer is taken to the live block only, and read
\* before the next is taken).
Store(p, field, val, faults) ==
    IF Dangling(p)
    THEN [heap |-> heap, proc |-> IF faults THEN "segv" ELSE proc]
    ELSE [heap |-> [heap EXCEPT ![p.blk][p.idx + 1][field] = val],
          proc |-> proc]

\* ---- the registers ----
\* qemu_plugin_read_register(handle, buf) on vCPU t appends the register's
\* bytes to buf and returns their number
ReadRegister(t, handle) == guest[t][handle]

\* init_vcpu_register (lines 119-131): two byte arrays, A and B; `last' is
\* A and holds the initial value, `new' is B and is empty
init_vcpu_register(t, handle) ==
    [handle |-> handle, last |-> "A", new |-> "B",
     bytes |-> [A |-> ReadRegister(t, handle), B |-> <<>>]]

\* registers_init (lines 133-146): the pointer returned (NULL for an empty
\* array, else the address t of the array made for vCPU t), the array, and
\* whether g_assert(r > 0) failed on the way
registers_init(t) ==
    LET registers == [r \in DOMAIN reg_list |-> init_vcpu_register(t, r)]
    IN  [ptr |-> IF Len(registers) # 0 THEN <<t>> ELSE NULL,
         registers |-> registers,
         aborted |-> \E r \in DOMAIN reg_list :
                        ~(Len(ReadRegister(t, r)) > 0)]

RECURSIVE SumHW(_, _)
\* the loop of lines 74-76 from byte i down to byte 0 (1-based: i to 1)
SumHW(data, i) ==
    IF i < 1 THEN 0 ELSE HammingWeight(data[i]) + SumHW(data, i - 1)

\* DiffRegister, counting the bits of the previous value
DiffRegisterPrevious(reg, t) ==
    LET data == ReadRegister(t, reg.handle)
        sz == Len(data)
        read == [reg EXCEPT !.bytes[reg.new] = data]
    IN  IF sz # Len(reg.bytes[reg.last])
        THEN [reg |-> read, leakage |-> 0, aborted |-> TRUE]
        ELSE IF reg.bytes[reg.last] # data
        THEN [reg |-> [read EXCEPT !.last = reg.new, !.new = reg.last],
              leakage |-> SumHW(reg.bytes[reg.last], sz), aborted |-> FALSE]
        ELSE [reg |-> read, leakage |-> 0, aborted |-> FALSE]

\* DiffRegister, emptying `new' at the end of the iteration instead of at
\* its start
DiffRegisterTruncates(reg, t) ==
    LET data == ReadRegister(t, reg.handle)
        sz == Len(data)
        read == [reg EXCEPT !.bytes[reg.new] = data]
    IN  IF sz # Len(reg.bytes[reg.last])
        THEN [reg |-> read, leakage |-> 0, aborted |-> TRUE]
        ELSE IF reg.bytes[reg.last] # data
        THEN [reg |-> [read EXCEPT !.last = reg.new, !.new = reg.last,
                                   !.bytes[reg.last] = <<>>],
              leakage |-> SumHW(data, sz), aborted |-> FALSE]
        ELSE [reg |-> [read EXCEPT !.bytes[reg.new] = <<>>],
              leakage |-> 0, aborted |-> FALSE]

\* the loop body with an exchange of the buffers after every read, whether
\* or not the bytes differ
DiffRegisterExchanges(reg, t) ==
    LET data == ReadRegister(t, reg.handle)
        sz == Len(data)
        read == [reg EXCEPT !.bytes[reg.new] = data]
    IN  IF sz # Len(reg.bytes[reg.last])
        THEN [reg |-> read, leakage |-> 0, aborted |-> TRUE]
        ELSE [reg |-> [read EXCEPT !.last = reg.new, !.new = reg.last],
              leakage |-> IF reg.bytes[reg.last] # data
                          THEN SumHW(data, sz) ELSE 0,
              aborted |-> FALSE]

\* one iteration of the loop of compute_hw_reg_leakage (lines 65-79) on
\* the register reg of vCPU t: the register after it, what it adds to
\* leakage, and whether g_assert(sz == reg->last->len) failed
DiffRegister(reg, t) ==
    LET data == ReadRegister(t, reg.handle)
        sz == Len(data)
        read == [reg EXCEPT !.bytes[reg.new] = data]
    IN  IF sz # Len(reg.bytes[reg.last])
        THEN [reg |-> read, leakage |-> 0, aborted |-> TRUE]
        ELSE IF reg.bytes[reg.last] # data
        THEN [reg |-> [read EXCEPT !.last = reg.new, !.new = reg.last],
              leakage |-> SumHW(data, sz), aborted |-> FALSE]
        ELSE [reg |-> read, leakage |-> 0, aborted |-> FALSE]

RECURSIVE DiffFrom(_, _, _, _)
\* the loop of compute_hw_reg_leakage from register n on, leakage so far
DiffFrom(registers, n, t, leakage) ==
    IF n > Len(registers)
    THEN [registers |-> registers, leakage |-> leakage, aborted |-> FALSE]
    ELSE LET d == DiffRegister(registers[n], t)
         IN  IF d.aborted
             THEN [registers |-> [registers EXCEPT ![n] = d.reg],
                   leakage |-> leakage, aborted |-> TRUE]
             ELSE DiffFrom([registers EXCEPT ![n] = d.reg], n + 1, t,
                           leakage + d.leakage)

\* compute_hw_reg_leakage (lines 62-82) on the registers of vCPU t
compute_hw_reg_leakage(registers, t) == DiffFrom(registers, 1, t, 0)

\* ---- the threads ----
Threads == DOMAIN pc

At(t, where) == proc = "running" /\ pc[t] = where

Goto(t, where) == pc' = [pc EXCEPT ![t] = where]

\* vcpu_init, line 160: g_rw_lock_writer_lock
vcpu_init_lock(t) ==
    /\ At(t, "new")
    /\ expand_array_lock = NULL
    /\ expand_array_lock' = <<t>>
    /\ Goto(t, "init_grow")
    /\ UNCHANGED <<stopVars, skipVars,
                   guest_len, found_len, info, reg_list, guest,
                   guest_writes, cpus, heap, freed, cptr, regs, records,
                   ncallbacks, last_diff, proc, uaf>>

\* vcpu_init, lines 161-164: the growth and g_rw_lock_writer_unlock
vcpu_init_grow(t) ==
    /\ At(t, "init_grow")
    /\ \E moved \in BOOLEAN :
         LET a == EnsureSize(t, moved)
         IN  /\ cpus' = a.cpus
             /\ heap' = a.heap
             /\ freed' = a.freed
             /\ found_len' = [found_len EXCEPT ![t] = cpus.len]
    /\ expand_array_lock' = NULL
    /\ Goto(t, "init_get")
    /\ UNCHANGED <<stopVars, skipVars,
                   guest_len, info, reg_list, guest, guest_writes,
                   cptr, regs, records, ncallbacks, last_diff, proc, uaf>>

\* get_cpu (lines 50-57), called at `from': the element's address is taken
\* under the reader lock, which is released before the address is used
get_cpu(t, from, to) ==
    /\ At(t, from)
    /\ expand_array_lock = NULL
    /\ cptr' = [cptr EXCEPT ![t] = ElementPtr(t)]
    /\ Goto(t, to)

\* vcpu_init, line 166
vcpu_init_get(t) ==
    /\ get_cpu(t, "init_get", "init_index")
    /\ UNCHANGED <<stopVars, skipVars,
                   guest_len, found_len, info, reg_list, guest,
                   guest_writes, cpus, heap, freed, expand_array_lock, regs,
                   records, ncallbacks, last_diff, proc, uaf>>

\* vcpu_init, line 167: c->last_cpu_index = -1
vcpu_init_index(t) ==
    /\ At(t, "init_index")
    /\ \E faults \in BOOLEAN :
         LET w == Store(cptr[t], "last_cpu_index", -1, faults)
         IN  heap' = w.heap /\ proc' = w.proc
    /\ uaf' = (uaf \/ Dangling(cptr[t]))
    /\ Goto(t, "init_registers")
    /\ UNCHANGED <<stopVars, skipVars,
                   guest_len, found_len, info, reg_list, guest,
                   guest_writes, cpus, freed, expand_array_lock, cptr, regs,
                   records, ncallbacks, last_diff>>

\* vcpu_init, line 168: c->registers = registers_init(vcpu_index)
vcpu_init_registers(t) ==
    /\ At(t, "init_registers")
    /\ LET r == registers_init(t)
       IN  IF r.aborted
           THEN /\ proc' = "abort"
                /\ UNCHANGED <<heap, regs, uaf>>
           ELSE /\ regs' = [regs EXCEPT ![t + 1] = r.registers]
                /\ \E faults \in BOOLEAN :
                     LET w == Store(cptr[t], "registers", r.ptr, faults)
                     IN  heap' = w.heap /\ proc' = w.proc
                /\ uaf' = (uaf \/ Dangling(cptr[t]))
    /\ cptr' = [cptr EXCEPT ![t] = NoCPU]
    /\ Goto(t, "ready")
    /\ UNCHANGED <<stopVars, skipVars,
                   guest_len, found_len, info, reg_list, guest,
                   guest_writes, cpus, freed, expand_array_lock, records,
                   ncallbacks, last_diff>>

\* vcpu_insn_exec, line 86: the host calls it for an instruction of vCPU t
vcpu_insn_exec_get(t) ==
    /\ ncallbacks[t] < guest_len[t]
    /\ get_cpu(t, "ready", "exec_log")
    /\ UNCHANGED <<stopVars, skipVars,
                   guest_len, found_len, info, reg_list, guest,
                   guest_writes, cpus, heap, freed, expand_array_lock, regs,
                   records, ncallbacks, last_diff, proc, uaf>>

\* vcpu_insn_exec, lines 91-96: the record of the previous instruction.
\* Reading through a dangling cpu is undefined: it faults, or finds what
\* the released block held.  cpu->registers->len of a NULL registers faults.
vcpu_insn_exec_log(t) ==
    /\ At(t, "exec_log")
    /\ uaf' = (uaf \/ Dangling(cptr[t]))
    /\ \E faults \in BOOLEAN :
         LET cpu == Deref(cptr[t])
         IN  IF Dangling(cptr[t]) /\ faults
             THEN /\ proc' = "segv"
                  /\ UNCHANGED <<regs, records, last_diff>>
             ELSE IF cpu.last_cpu_index = -1
             THEN UNCHANGED <<regs, records, last_diff, proc>>
             ELSE IF cpu.registers = NULL
             THEN /\ proc' = "segv"
                  /\ UNCHANGED <<regs, records, last_diff>>
             ELSE
             LET at == cpu.registers[1] + 1
                 d == compute_hw_reg_leakage(regs[at], t)
             IN  /\ regs' = [regs EXCEPT ![at] = d.registers]
                 /\ last_diff' = <<[cpu |-> t, before |-> regs[at],
                                    read |-> guest[t],
                                    leakage |-> d.leakage]>>
                 /\ IF d.aborted
                    THEN proc' = "abort" /\ UNCHANGED records
                    ELSE /\ records' = Append(records,
                                [cpu |-> cpu.last_cpu_index,
                                 hw_leakage |-> d.leakage, by |-> t])
                         /\ UNCHANGED proc
    /\ Goto(t, "exec_mark")
    /\ UNCHANGED <<stopVars, skipVars,
                   guest_len, found_len, info, reg_list, guest,
                   guest_writes, cpus, heap, freed, expand_array_lock, cptr,
                   ncallbacks>>

\* the values the registers of a vCPU may take
ByteVals == {0, 15, 255}

RECURSIVE ByteSeqs(_)
ByteSeqs(width) ==
    IF width = 0 THEN {<<>>}
    ELSE {Append(q, b) : q \in ByteSeqs(width - 1), b \in ByteVals}

RegisterFiles(widths) ==
    {f \in [DOMAIN widths ->
                UNION {ByteSeqs(widths[r]) : r \in DOMAIN widths}] :
        \A r \in DOMAIN widths : Len(f[r]) = widths[r]}

\* vcpu_insn_exec, line 98: cpu->last_cpu_index = cpu_index, and the return
\* to the host, which executes the instruction
vcpu_insn_exec_mark(t) ==
    /\ At(t, "exec_mark")
    /\ \E faults \in BOOLEAN :
         LET w == Store(cptr[t], "last_cpu_index", t, faults)
         IN  heap' = w.heap /\ proc' = w.proc
    /\ uaf' = (uaf \/ Dangling(cptr[t]))
    /\ ncallbacks' = [ncallbacks EXCEPT ![t] = @ + 1]
    /\ \E f \in (IF guest_writes THEN RegisterFiles(reg_list)
                 ELSE {guest[t]}) :
         guest' = [guest EXCEPT ![t] = f]
    /\ cptr' = [cptr EXCEPT ![t] = NoCPU]
    /\ Goto(t, "ready")
    /\ UNCHANGED <<stopVars, skipVars,
                   guest_len, found_len, info, reg_list,
                   guest_writes, cpus, freed, expand_array_lock, regs,
                   records, last_diff>>

NextSca ==
    \/ \E t \in Threads : vcpu_init_lock(t)
    \/ \E t \in Threads : vcpu_init_grow(t)
    \/ \E t \in Threads : vcpu_init_get(t)
    \/ \E t \in Threads : vcpu_init_index(t)
    \/ \E t \in Threads : vcpu_init_registers(t)
    \/ \E t \in Threads : vcpu_insn_exec_get(t)
    \/ \E t \in Threads : vcpu_insn_exec_log(t)
    \/ \E t \in Threads : vcpu_insn_exec_mark(t)

\* stoptrigger.so is not loaded
StopIdle ==
    /\ argv = <<>>
    /\ LoadInit
    /\ RunInit

\* The state qemu_plugin_install (lines 174-189) leaves, in a machine of n
\* vCPUs whose guest code executes len[t] instructions on vCPU t.  No
\* thread has initialised its vCPU yet, or (`up') that of vCPU 0 has, alone,
\* as the thread that starts the guest does before there is another.
ScaInstalled(n, system_emulation, widths, writes, len, up) ==
    /\ info = [system_emulation |-> system_emulation, max_vcpus |-> n]
    /\ reg_list = widths
    /\ guest \in [0 .. n - 1 -> RegisterFiles(widths)]
    /\ guest_writes = writes
    /\ guest_len = len
    /\ cpus = [g_array_sized_new(IF system_emulation THEN n ELSE 1)
                  EXCEPT !.len = IF up THEN 1 ELSE 0]
    /\ heap = IF up
              THEN << <<[last_cpu_index |-> -1, registers |-> <<0>>]>> >>
              ELSE << <<>> >>
    /\ freed = {}
    /\ expand_array_lock = NULL
    /\ pc = [t \in 0 .. n - 1 |-> IF up /\ t = 0 THEN "ready" ELSE "new"]
    /\ cptr = [t \in 0 .. n - 1 |-> NoCPU]
    /\ regs = [a \in 1 .. n |->
                  IF up /\ a = 1 THEN registers_init(0).registers ELSE <<>>]
    /\ records = <<>>
    /\ ncallbacks = [t \in 0 .. n - 1 |-> 0]
    /\ last_diff = <<>>
    /\ found_len = [t \in 0 .. n - 1 |-> 0]
    /\ proc = "running"
    /\ uaf = FALSE

\* several vCPUs with one one-byte register the guest never writes, all
\* executing guest code
InitSca ==
    /\ StopIdle
    /\ SkipIdle
    /\ \E system_emulation \in BOOLEAN :
         ScaInstalled(NumScaVcpus, system_emulation, <<1>>, FALSE,
                      [t \in 0 .. NumScaVcpus - 1 |-> MaxCallbacks], FALSE)
    /\ \A t \in DOMAIN guest : guest[t] = << <<255>> >>

SpecSca == InitSca /\ [][NextSca]_vars

\* more vCPUs, started by vCPU 0, of which vCPU 1 executes an instruction
InitEnsure ==
    /\ StopIdle
    /\ SkipIdle
    /\ \E system_emulation \in BOOLEAN :
         ScaInstalled(NumTableVcpus, system_emulation, <<1>>, FALSE,
                      [t \in 0 .. NumTableVcpus - 1 |->
                          IF t = 1 THEN 1 ELSE 0], TRUE)
    /\ \A t \in DOMAIN guest : guest[t] = << <<255>> >>

SpecEnsure == InitEnsure /\ [][NextSca]_vars

\* one vCPU whose guest writes its registers
InitLeak ==
    /\ StopIdle
    /\ SkipIdle
    /\ \E system_emulation \in BOOLEAN, widths \in {<<1>>, <<2>>, <<1, 2>>} :
         ScaInstalled(1, system_emulation, widths, TRUE,
                      [t \in {0} |-> MaxCallbacks], FALSE)

SpecLeak == InitLeak /\ [][NextSca]_vars

\* several vCPUs of a guest that exposes no register
InitNoRegs ==
    /\ StopIdle
    /\ SkipIdle
    /\ \E system_emulation \in BOOLEAN :
         ScaInstalled(NumScaVcpus, system_emulation, <<>>, FALSE,
                      [t \in 0 .. NumScaVcpus - 1 |-> MaxCallbacks], FALSE)

SpecNoRegs == InitNoRegs /\ [][NextSca]_vars

(***************************************************************************)
(* sca_hw.c: the properties                                                *)
(***************************************************************************)
\* vcpu_init has returned on vCPU t
Done(t) == pc[t] \in {"ready", "exec_log", "exec_mark"}

\* the records vCPU t's callbacks emitted
RecordsBy(t) == {i \in DOMAIN records : records[i].by = t}

\* the entry of index j in the live table is the one vcpu_init(j) makes,
\* possibly marked since by vCPU j's callbacks
Constructed(j) ==
    /\ j < cpus.len
    /\ cpus.data \notin freed
    /\ heap[cpus.data][j + 1].registers = <<j>>
    /\ heap[cpus.data][j + 1].last_cpu_index \in {-1, j}
    /\ Len(regs[j + 1]) = Len(reg_list)

\* C4: what the claim says of the records.  After n >= 1 callbacks of a
\* vCPU have returned, its callbacks have emitted n - 1 records (none in the
\* first, one in each later one, emitted before the instruction is marked
\* pending), and every record carries the index of the vCPU whose callback
\* emitted it.
C4_Records ==
    /\ \A t \in Threads :
         /\ (pc[t] = "ready" /\ ncallbacks[t] >= 1)
              => Cardinality(RecordsBy(t)) = ncallbacks[t] - 1
         /\ (pc[t] = "exec_mark" /\ proc = "running")
              => Cardinality(RecordsBy(t)) = ncallbacks[t]
    /\ \A i \in DOMAIN records : records[i].cpu = records[i].by

\* The records are as C4 says for as long as the table has not been
\* relocated.
C4_RecordsWhileNotRelocated == (freed = {}) => C4_Records

\* C6: what the claim says of the table.  While a callback or an
\* initialisation uses the CPU * it obtained, the pointer is the address of
\* the live table's entry for its vCPU, and nothing has been read or
\* written through a pointer into a released table.
C6_SafeGrowth ==
    /\ \A t \in Threads :
         pc[t] \in {"init_index", "init_registers", "exec_log", "exec_mark"}
           => cptr[t] = ElementPtr(t)
    /\ ~uaf

RECURSIVE PopCount(_)
\* the number of one bits of b
PopCount(b) == IF b = 0 THEN 0 ELSE (b % 2) + PopCount(b \div 2)

RECURSIVE BitsOf(_, _)
\* the one bits of the first n bytes of a value
BitsOf(data, n) ==
    IF n = 0 THEN 0 ELSE PopCount(data[n]) + BitsOf(data, n - 1)

RECURSIVE ExpectedLeakage(_, _, _)
\* the bits of the new values of the first n registers that differ from
\* their previous snapshot
ExpectedLeakage(before, read, n) ==
    IF n = 0 THEN 0
    ELSE ExpectedLeakage(before, read, n - 1)
         + (IF before[n].bytes[before[n].last] # read[before[n].handle]
            THEN BitsOf(read[before[n].handle],
                        Len(read[before[n].handle]))
            ELSE 0)

TableIsPopCount ==
    /\ Len(HAMMING_WEIGHT) = 256
    /\ \A b \in 0 .. 255 : HammingWeight(b) = PopCount(b)

\* C5: the table holds the population count of every byte, and every
\* compute_hw_reg_leakage returns the sum, over the registers whose bytes
\* read differ from their previous snapshot, of the population counts of
\* the bytes read: 0 when no register changed and, with one one-byte
\* register, 8 for 0x00 -> 0xFF and 4 for 0x00 -> 0x0F.
C5_Leakage ==
    /\ TableIsPopCount
    /\ last_diff # <<>> =>
         LET d == last_diff[1]
             previous(r) == d.before[r].bytes[d.before[r].last]
         IN  /\ d.leakage
                  = ExpectedLeakage(d.before, d.read, Len(d.before))
             /\ (\A r \in DOMAIN d.before : previous(r) = d.read[r])
                  => d.leakage = 0
             /\ (Len(d.before) = 1 /\ previous(1) = <<0>>
                 /\ d.read[1] = <<255>>) => d.leakage = 8
             /\ (Len(d.before) = 1 /\ previous(1) = <<0>>
                 /\ d.read[1] = <<15>>) => d.leakage = 4

\* a one-byte register went 0x00 -> 0xFF and the diff returned 8
C5_Witness ==
    /\ last_diff # <<>>
    /\ Len(last_diff[1].before) = 1
    /\ last_diff[1].before[1].bytes[last_diff[1].before[1].last] = <<0>>
    /\ last_diff[1].read = << <<255>> >>
    /\ last_diff[1].leakage = 8
    /\ records # <<>>

\* C8: the length of the table never decreases; a vcpu_init whose index is
\* below the length leaves the table, its block and every entry where they
\* are; and once vcpu_init(j) has returned after finding the table longer
\* than j, the table is still longer than j and its entry j is the
\* constructed one, as far as no access went through a dangling pointer:
\* so it is after vcpu_init(3) followed by vcpu_init(1).
C8_TableNeverShrinks ==
    /\ [][cpus'.len >= cpus.len]_vars
    /\ [][\A t \in Threads :
            (pc[t] = "init_grow" /\ pc'[t] = "init_get" /\ t < cpus.len)
              => (cpus' = cpus /\ heap' = heap /\ freed' = freed)]_vars
    /\ [](\A j \in Threads :
            (Done(j) /\ found_len[j] > j /\ ~uaf)
              => (cpus.len >= found_len[j] /\ Constructed(j)))
    /\ []((Done(1) /\ found_len[1] >= 4)
              => (cpus.len >= 4 /\ Constructed(1)))

\* vcpu_init(3) grew the table to four entries, vcpu_init(1) followed, and
\* vCPU 1's callback has looked its entry up
C8_Witness ==
    /\ Done(3)
    /\ found_len[3] < 4
    /\ found_len[1] >= 4
    /\ pc[1] = "exec_log"
    /\ cptr[1] = ElementPtr(1)
    /\ Constructed(1)

\* the lengths of the two buffers of every register of an initialised vCPU
BufferLengths(t, r) ==
    [previous |-> Len(regs[t + 1][r].bytes[regs[t + 1][r].last]),
     scratch |-> Len(regs[t + 1][r].bytes[regs[t + 1][r].new])]

\* C9, as claimed: from the end of its initialisation on, both buffers of a
\* register have the register's width as their length.
C9_BufferLengths ==
    \A t \in Threads : \A r \in DOMAIN regs[t + 1] :
        /\ BufferLengths(t, r).previous = reg_list[r]
        /\ BufferLengths(t, r).scratch = reg_list[r]

\* C9, amended: `last' always has the register's width as its length;
\* `new' is empty until the vCPU's first diff and has the width as its
\* length after every diff.
C9_BufferLengthsAfterDiff ==
    \A t \in Threads : \A r \in DOMAIN regs[t + 1] :
        /\ BufferLengths(t, r).previous = reg_list[r]
        /\ BufferLengths(t, r).scratch
             = IF RecordsBy(t) # {} THEN reg_list[r] ELSE 0

\* a two-byte register that changed: the buffers are swapped and both hold
\* two bytes
C9_Witness ==
    /\ reg_list = <<2>>
    /\ RecordsBy(0) # {}
    /\ regs[1][1].last = "B"
    /\ BufferLengths(0, 1) = [previous |-> 2, scratch |-> 2]

(***************************************************************************)
(* skipinsn.c                                                              *)
(***************************************************************************)
\* the guest's instructions: their addresses, and the translation blocks
\* the host makes of them
SkipAddrs == {U64(4096), U64(4100), <<4096, 0, 1, 0>>}

SkipTbs == {<<U64(4096), U64(4100)>>, <<U64(4100)>>, <<<<4096, 0, 1, 0>>>>}

\* qemu_plugin_insn_size
qemu_plugin_insn_size(insn_vaddr) == IF insn_vaddr = U64(4100) THEN 2 ELSE 4

SkipThreads == DOMAIN skip_pc

\* the locals of a thread that is not in the plugin
SkipNoLocal == [tb |-> <<>>, info |-> NULL, tmp |-> U64Zero, call |-> 0]

\* vcpu_tb_trans, lines 61-67, with the table missing every key
LookupMisses(insn_vaddr) ==
    LET made == [id |-> skip_nalloc + 1, vaddr |-> insn_vaddr,
                 size |-> qemu_plugin_insn_size(insn_vaddr)]
    IN  [info |-> <<made>>,
         insn_ht |-> g_hash_table_insert(insn_ht,
                                         GUINT_TO_POINTER(insn_vaddr), made),
         nalloc |-> skip_nalloc + 1]

\* vcpu_tb_trans, lines 60-67: the InsnInfo * of insn_vaddr, the table and
\* the number of allocations after them.  The n-th struct allocated has the
\* identity n.
LookupOrInsert(insn_vaddr) ==
    IF GUINT_TO_POINTER(insn_vaddr) \in DOMAIN insn_ht
    THEN [info |-> <<insn_ht[GUINT_TO_POINTER(insn_vaddr)]>>,
          insn_ht |-> insn_ht, nalloc |-> skip_nalloc]
    ELSE LET made == [id |-> skip_nalloc + 1, vaddr |-> insn_vaddr,
                      size |-> qemu_plugin_insn_size(insn_vaddr)]
         IN  [info |-> <<made>>,
              insn_ht |-> g_hash_table_insert(
                              insn_ht, GUINT_TO_POINTER(insn_vaddr), made),
              nalloc |-> skip_nalloc + 1]

SkipGoto(t, where) == skip_pc' = [skip_pc EXCEPT ![t] = where]

\* the host calls vcpu_tb_trans on vCPU t's thread for a block it translates
skip_vcpu_tb_trans_begin(t) ==
    /\ skip_pc[t] = "idle"
    /\ skip_left[t].trans > 0
    /\ \E tb \in SkipTbs :
         skip_local' = [skip_local EXCEPT ![t].tb = tb]
    /\ skip_left' = [skip_left EXCEPT ![t].trans = @ - 1]
    /\ SkipGoto(t, "trans_lock")
    /\ UNCHANGED <<stopVars, scaVars, skip_icount, executed_instructions,
                   insn_ht, hashtable_lock, skip_cbs, skip_ncalls, skip_log,
                   skip_nalloc, skip_nincr>>

\* vcpu_tb_trans, line 59: g_mutex_lock, for the first instruction left
skip_vcpu_tb_trans_lock(t) ==
    /\ skip_pc[t] = "trans_lock"
    /\ hashtable_lock = NULL
    /\ hashtable_lock' = <<t>>
    /\ SkipGoto(t, "trans_lookup")
    /\ UNCHANGED <<stopVars, scaVars, skip_icount, executed_instructions,
                   insn_ht, skip_local, skip_cbs, skip_ncalls, skip_log,
                   skip_nalloc, skip_nincr, skip_left>>

\* vcpu_tb_trans, lines 60-68: the lookup, the insertion and g_mutex_unlock
skip_vcpu_tb_trans_lookup(t) ==
    /\ skip_pc[t] = "trans_lookup"
    /\ LET r == LookupOrInsert(Head(skip_local[t].tb))
       IN  /\ insn_ht' = r.insn_ht
           /\ skip_nalloc' = r.nalloc
           /\ skip_local' = [skip_local EXCEPT ![t].info = r.info]
    /\ hashtable_lock' = NULL
    /\ SkipGoto(t, "trans_register")
    /\ UNCHANGED <<stopVars, scaVars, skip_icount, executed_instructions,
                   skip_cbs, skip_ncalls, skip_log, skip_nincr, skip_left>>

\* vcpu_tb_trans, lines 69-70: the registration, and the loop's next turn
skip_vcpu_tb_trans_register(t) ==
    /\ skip_pc[t] = "trans_register"
    /\ skip_cbs' = skip_cbs \cup {[by |-> t,
                                   vaddr |-> Head(skip_local[t].tb),
                                   udata |-> skip_local[t].info]}
    /\ IF Len(skip_local[t].tb) > 1
       THEN /\ skip_local' = [skip_local EXCEPT ![t].tb = Tail(@),
                                                 ![t].info = NULL]
            /\ SkipGoto(t, "trans_lock")
       ELSE /\ skip_local' = [skip_local EXCEPT ![t] = SkipNoLocal]
            /\ SkipGoto(t, "idle")
    /\ UNCHANGED <<stopVars, scaVars, skip_icount, executed_instructions,
                   insn_ht, hashtable_lock, skip_ncalls, skip_log,
                   skip_nalloc, skip_nincr, skip_left>>

\* a test that also holds once the counter has passed icount
SkipReachedOrPassed(count) == U64Ge(count, skip_icount)

\* line 34: executed_instructions == icount, for the value read
SkipReached(count) == count = skip_icount

\* The host calls vcpu_insn_exec on vCPU t's thread with the udata of a
\* registered callback; line 34: executed_instructions is read and compared
skip_vcpu_insn_exec_test(t) ==
    /\ skip_pc[t] = "idle"
    /\ skip_left[t].exec > 0
    /\ \E cb \in skip_cbs :
         skip_local' = [skip_local EXCEPT ![t].info = cb.udata,
                                          ![t].call = skip_ncalls + 1]
    /\ skip_ncalls' = skip_ncalls + 1
    /\ skip_left' = [skip_left EXCEPT ![t].exec = @ - 1]
    /\ IF SkipReached(executed_instructions)
       THEN SkipGoto(t, "skip_load")
       ELSE SkipGoto(t, "count_load")
    /\ UNCHANGED <<stopVars, scaVars, skip_icount, executed_instructions,
                   insn_ht, hashtable_lock, skip_cbs, skip_log, skip_nalloc,
                   skip_nincr>>

\* executed_instructions++ (lines 35 and 47) is a read and a write of a
\* plain uint64_t: the read
skip_vcpu_insn_exec_load(t) ==
    /\ skip_pc[t] \in {"skip_load", "count_load"}
    /\ skip_local' = [skip_local EXCEPT ![t].tmp = executed_instructions]
    /\ SkipGoto(t, IF skip_pc[t] = "skip_load" THEN "skip_store"
                   ELSE "count_store")
    /\ UNCHANGED <<stopVars, scaVars, skip_icount, executed_instructions,
                   insn_ht, hashtable_lock, skip_cbs, skip_ncalls, skip_log,
                   skip_nalloc, skip_nincr, skip_left>>

\* line 35: the write of executed_instructions++
skip_vcpu_insn_exec_store(t) ==
    /\ skip_pc[t] = "skip_store"
    /\ executed_instructions' = U64Add(skip_local[t].tmp, 1)
    /\ skip_nincr' = skip_nincr + 1
    /\ SkipGoto(t, "skip_set_pc")
    /\ UNCHANGED <<stopVars, scaVars, skip_icount, insn_ht, hashtable_lock,
                   skip_local, skip_cbs, skip_ncalls, skip_log, skip_nalloc,
                   skip_left>>

\* lines 36-44: qemu_plugin_set_pc and qemu_plugin_exit_current_tb, which
\* unwinds to the host's loop or returns
skip_vcpu_insn_exec_set_pc(t) ==
    /\ skip_pc[t] = "skip_set_pc"
    /\ skip_log' = Append(skip_log,
         [call |-> skip_local[t].call, cpu |-> t,
          vaddr |-> skip_local[t].info[1].vaddr,
          set_pc |-> U64Add(skip_local[t].info[1].vaddr,
                            skip_local[t].info[1].size),
          exit_current_tb |-> TRUE])
    /\ \E unwinds \in BOOLEAN :
         IF unwinds
         THEN /\ skip_local' = [skip_local EXCEPT ![t] = SkipNoLocal]
              /\ SkipGoto(t, "idle")
         ELSE /\ UNCHANGED skip_local
              /\ SkipGoto(t, "count_load")
    /\ UNCHANGED <<stopVars, scaVars, skip_icount, executed_instructions,
                   insn_ht, hashtable_lock, skip_cbs, skip_ncalls,
                   skip_nalloc, skip_nincr, skip_left>>

\* line 47: the write of executed_instructions++, and the return
skip_vcpu_insn_exec_return(t) ==
    /\ skip_pc[t] = "count_store"
    /\ executed_instructions' = U64Add(skip_local[t].tmp, 1)
    /\ skip_nincr' = skip_nincr + 1
    /\ skip_local' = [skip_local EXCEPT ![t] = SkipNoLocal]
    /\ SkipGoto(t, "idle")
    /\ UNCHANGED <<stopVars, scaVars, skip_icount, insn_ht, hashtable_lock,
                   skip_cbs, skip_ncalls, skip_log, skip_nalloc, skip_left>>

NextSkip ==
    \/ \E t \in SkipThreads : skip_vcpu_tb_trans_begin(t)
    \/ \E t \in SkipThreads : skip_vcpu_tb_trans_lock(t)
    \/ \E t \in SkipThreads : skip_vcpu_tb_trans_lookup(t)
    \/ \E t \in SkipThreads : skip_vcpu_tb_trans_register(t)
    \/ \E t \in SkipThreads : skip_vcpu_insn_exec_test(t)
    \/ \E t \in SkipThreads : skip_vcpu_insn_exec_load(t)
    \/ \E t \in SkipThreads : skip_vcpu_insn_exec_store(t)
    \/ \E t \in SkipThreads : skip_vcpu_insn_exec_set_pc(t)
    \/ \E t \in SkipThreads : skip_vcpu_insn_exec_return(t)

\* The state qemu_plugin_install of skipinsn.c (lines 85-112) leaves when
\* given icount=K, in a machine of n vCPUs where vCPU t translates up to
\* left[t].trans blocks and executes up to left[t].exec instructions.
SkipInstalled(n, K, left) ==
    /\ skip_icount = U64(K)
    /\ executed_instructions = U64Zero
    /\ insn_ht = <<>>
    /\ hashtable_lock = NULL
    /\ skip_pc = [t \in 0 .. n - 1 |-> "idle"]
    /\ skip_local = [t \in 0 .. n - 1 |-> SkipNoLocal]
    /\ skip_cbs = {}
    /\ skip_ncalls = 0
    /\ skip_log = <<>>
    /\ skip_nalloc = 0
    /\ skip_nincr = 0
    /\ skip_left = left

\* several vCPUs translating a block, of which vCPU 0 translates more and
\* executes an instruction
InitSkipTrans ==
    /\ StopIdle
    /\ ScaIdle
    /\ SkipInstalled(NumSkipVcpus, 0,
                     [t \in 0 .. NumSkipVcpus - 1 |->
                         [trans |-> IF t = 0 THEN MaxSkipTrans ELSE 1,
                          exec |-> IF t = 0 THEN 1 ELSE 0]])

SpecSkipTrans == InitSkipTrans /\ [][NextSkip]_vars

\* several vCPUs executing an instruction of the block vCPU 0 translated,
\* of which vCPU 0 executes more
InitSkipRace ==
    /\ StopIdle
    /\ ScaIdle
    /\ \E K \in 0 .. MaxSkipIcount :
         SkipInstalled(NumSkipVcpus, K,
                       [t \in 0 .. NumSkipVcpus - 1 |->
                           [trans |-> IF t = 0 THEN 1 ELSE 0,
                            exec |-> IF t = 0 THEN MaxSkipCallbacks
                                     ELSE 1]])

SpecSkipRace == InitSkipRace /\ [][NextSkip]_vars

\* one vCPU, which executes more than icount instructions
InitSkipOne ==
    /\ StopIdle
    /\ ScaIdle
    /\ \E K \in 0 .. MaxSkipIcount :
         SkipInstalled(1, K, [t \in {0} |->
                                 [trans |-> MaxSkipTrans,
                                  exec |-> MaxSkipIcount + 2]])

SpecSkipOne == InitSkipOne /\ [][NextSkip]_vars

(***************************************************************************)
(* skipinsn.c: the properties                                              *)
(***************************************************************************)
\* the addresses whose translation has looked the table up
SkipTranslated ==
    {cb.vaddr : cb \in skip_cbs}
    \cup {Head(skip_local[t].tb) :
            t \in {u \in SkipThreads : skip_pc[u] = "trans_register"}}

\* C11: the table holds one record for every address translated so far and
\* for no other, each under its own address and each a struct of its own;
\* every struct allocated is in it (none was replaced); every callback
\* registered, and every one about to be, carries the record the table
\* holds for its address; and no step removes or replaces a record.
C11_OneRecordPerAddress ==
    /\ [](/\ DOMAIN insn_ht = {GUINT_TO_POINTER(a) : a \in SkipTranslated}
          /\ \A k \in DOMAIN insn_ht : insn_ht[k].vaddr = k
          /\ \A k1, k2 \in DOMAIN insn_ht :
               insn_ht[k1].id = insn_ht[k2].id => k1 = k2
          /\ skip_nalloc = Cardinality(DOMAIN insn_ht)
          /\ \A cb \in skip_cbs :
               cb.udata = <<insn_ht[GUINT_TO_POINTER(cb.vaddr)]>>
          /\ \A t \in SkipThreads :
               skip_pc[t] = "trans_register"
                 => skip_local[t].info
                      = <<insn_ht[GUINT_TO_POINTER(Head(skip_local[t].tb))]>>)
    /\ [][\A k \in DOMAIN insn_ht :
            k \in DOMAIN insn_ht' /\ insn_ht'[k] = insn_ht[k]]_vars

\* two vCPUs have translated the same address and registered the same
\* record for it, and two addresses that agree in their low 32 bits have a
\* record each
C11_Witness ==
    /\ \E cb1, cb2 \in skip_cbs :
         /\ cb1.by # cb2.by
         /\ cb1.vaddr = cb2.vaddr
         /\ cb1.udata = cb2.udata
    /\ {U64(4096), <<4096, 0, 1, 0>>} \subseteq DOMAIN insn_ht
    /\ insn_ht[U64(4096)].id # insn_ht[<<4096, 0, 1, 0>>].id

(***************************************************************************)
(* stoptrigger.c: the two phases on several vCPUs                          *)
(***************************************************************************)
\* the invocations of the trigger callbacks on vCPU c before the i-th
EarlierOn(c, i) == {j \in 1 .. i - 1 : cblog[j].cpu = c}

\* C12: what the claim says of the two phases.  The snapshot is persisted
\* by the last callback invoked (it exits the process in the same call);
\* an earlier callback on the same vCPU has requested the exit of its
\* translation block.
C12_PerVcpuTwoPhase ==
    (snapshot_name # NULL /\ Calls("savevm") # {})
      => EarlierOn(cblog[Len(cblog)].cpu, Len(cblog)) # {}

\* With one vCPU executing, the phases are as C12 says.
C12_TwoPhaseOneVcpu ==
    (\A i, j \in DOMAIN cblog : cblog[i].cpu = cblog[j].cpu)
      => C12_PerVcpuTwoPhase

\* C13: what the claim says of the threshold.  The threshold icount + 1 of
\* the conditional callback is greater than the limit, and the count
\* callback is invoked on no vCPU that has retired icount instructions or
\* fewer, the current one included.
C13_ThresholdAboveLimit ==
    (Started /\ exit_on_icount)
    =>
    /\ U64Lt(icount, U64Add(icount, 1))
    /\ \A a \in DOMAIN insn_cbs : \A i \in DOMAIN insn_cbs[a] :
         insn_cbs[a][i].op = "cond_ge_cb"
           => U64Lt(icount, insn_cbs[a][i].imm)
    /\ \A i \in DOMAIN cblog :
         cblog[i].fn = "exit_icount_reached"
           => U64Lt(icount, U64(cblog[i].n))

\* The threshold is above every limit but 2^64 - 1.
C13_ThresholdBelowMax == icount # U64Max => C13_ThresholdAboveLimit

\* C14: what the claim says of the address callback.  The address the
\* callback recovers from its udata is the address registered, and when the
\* callback ends the process the exit status is the exit code configured
\* for that address.
C14_FullAddress ==
    Started
    =>
    /\ \A i \in DOMAIN cblog :
         cblog[i].fn = "exit_address_reached"
           => cblog[i].insn_vaddr = cblog[i].udata
    /\ (phase = "exited" /\ cblog[Len(cblog)].fn = "exit_address_reached")
         => exit_status = <<addrs_ht[cblog[Len(cblog)].udata]>>

\* The address is recovered in full when it is below 2^32.
C14_LowAddress ==
    (\A k \in DOMAIN addrs_ht : k[3] = 0 /\ k[4] = 0) => C14_FullAddress

\* C15: what the claim says of the exit code after the snapshot.  With
\* savevm, icount and addr all configured, the process ends with the exit
\* code of the trigger whose callback requested the exit of the translation
\* block, which is the first callback invoked.
C15_FirstPhaseExitCode ==
    (Started /\ snapshot_name # NULL /\ exit_on_icount /\ exit_on_address
     /\ phase = "exited")
    => exit_status = <<ConfiguredCode(cblog[1])>>

\* C16: with savevm, once a trigger callback has requested the exit of the
\* translation block, a trigger callback is invoked again, the snapshot is
\* persisted and the process terminates.
C16_ExitRequestedLeadsToExit ==
    (snapshot_name # NULL /\ tb_exited /\ phase = "run")
      ~> (/\ phase = "exited"
          /\ Len(cblog) >= 2
          /\ Calls("savevm") # {}
          /\ exit_status # <<>>)

\* the exit of the translation block was requested, the vCPU re-entered and
\* the process has exited after the snapshot
C16_Witness ==
    /\ snapshot_name # NULL
    /\ tb_exited
    /\ Calls("exit_current_tb") # {}
    /\ Calls("savevm") # {}
    /\ phase = "exited"
    /\ cblog[1].cpu = cblog[2].cpu
    /\ cblog[1].udata = cblog[2].udata
    /\ cblog[2].n = cblog[1].n + 1

\* the handles of the register tracks of the array at index i, in order
TrackHandles(i) == [r \in DOMAIN regs[i] |-> regs[i][r].handle]

\* the last diff left track r of its vCPU as `now', having found it as `was'
\* and read the bytes `data'
DiffedTrack(was, now, data) ==
    /\ now.bytes[now.last] = data
    /\ now.handle = was.handle
    /\ {now.last, now.new} = {was.last, was.new}
    /\ now.last # now.new
    /\ (now.last # was.last) <=> (was.bytes[was.last] # data)
    /\ was.bytes[was.last] = data
         => /\ now.last = was.last
            /\ now.new = was.new
            /\ now.bytes[now.last] = was.bytes[was.last]

\* C17: after every register diff `last' of every track holds the bytes just
\* read; the buffers are exchanged exactly when the bytes read differ from
\* `last', which is otherwise left as it was; the tracks of a vCPU keep their
\* order and their handles after initialisation.
C17_DiffKeepsPrevious ==
    /\ [](last_diff # <<>> /\ proc = "running"
            => LET d == last_diff[1]
                   now == regs[d.cpu + 1]
               IN  /\ DOMAIN now = DOMAIN d.before
                   /\ \A r \in DOMAIN now :
                        DiffedTrack(d.before[r], now[r], d.read[r]))
    /\ [][\A i \in DOMAIN regs :
            regs[i] # <<>> => TrackHandles(i)' = TrackHandles(i)]_vars

\* a diff that exchanged the buffers of one register and left those of
\* another, unchanged one alone
C17_Witness ==
    /\ last_diff # <<>>
    /\ proc = "running"
    /\ Len(last_diff[1].before) = 2
    /\ regs[last_diff[1].cpu + 1][1].last # last_diff[1].before[1].last
    /\ regs[last_diff[1].cpu + 1][2].last = last_diff[1].before[2].last
    /\ regs[last_diff[1].cpu + 1][2].bytes["B"] = last_diff[1].read[2]

\* the number of callbacks that have returned or unwound
SkipCompleted ==
    skip_ncalls - Cardinality({t \in SkipThreads : skip_pc[t] # "idle"})

\* the callbacks that have overridden the program counter so far did so at
\* position K (0-based) for icount = K, with the address after the
\* instruction, and asked for the exit of the translation block
SkipsAtIcount ==
    \A i \in DOMAIN skip_log :
        /\ skip_icount = U64(skip_log[i].call - 1)
        /\ skip_log[i].set_pc
             = U64Add(skip_log[i].vaddr,
                      qemu_plugin_insn_size(skip_log[i].vaddr))
        /\ skip_log[i].exit_current_tb

\* C18: with one vCPU and icount = K, only the callback at 0-based position
\* K overrides the program counter, with the instruction's address plus its
\* size, and asks for the exit of the translation block; once K + 1
\* callbacks have completed exactly one instruction has been skipped.
C18_OneSkipAtIcount ==
    /\ SkipsAtIcount
    /\ Len(skip_log) <= 1
    /\ \A K \in 0 .. MaxSkipIcount :
         skip_icount = U64(K) /\ SkipCompleted >= K + 1
           => Len(skip_log) = 1

\* icount = 1: the second callback has skipped its instruction and a third
\* callback has completed after it
C18_Witness ==
    /\ skip_icount = U64(1)
    /\ Cardinality(SkipThreads) = 1
    /\ SkipCompleted >= 3
    /\ Len(skip_log) = 1
    /\ skip_log[1].call = 2

\* C19, as claimed: with several vCPUs running callbacks concurrently at most
\* one callback overrides the program counter, and when no callback is in
\* progress the counter has every increment made (one per callback, and one
\* more by a skipping callback that ran on into line 47).
C19_OneSkipNoLostIncrement ==
    /\ Len(skip_log) <= 1
    /\ (\A t \in SkipThreads : skip_pc[t] = "idle")
         => executed_instructions = U64(skip_nincr)

\* C20, as claimed: on a vCPU without registers no callback ends in a fatal
\* error, and every callback after the vCPU's first has emitted a record
\* with hw_leakage = 0 (in the runs without an access through a stale
\* address of the table, which C6 is about).
C20_EmptyRegisterList ==
    reg_list = <<>> /\ ~uaf
      => /\ proc = "running"
         /\ \A t \in Threads :
              /\ Cardinality(RecordsBy(t)) >= ncallbacks[t] - 1
              /\ \A i \in RecordsBy(t) : records[i].hw_leakage = 0

=============================================================================
